---------------------------- MODULE Spec2Model ----------------------------
(***************************************************************************)
(* Model of the scheduling-and-delivery core of the Islamic content bot:   *)
(*   src/telegram_bot.py  TelegramBot          (the Delivery Client)       *)
(*   src/scheduler.py     ContentScheduler     (the Job Registry)          *)
(*   src/bot_handler.py   CombinedBotHandler   (the Scheduler Loop and the *)
(*                                              Interactive Loop)          *)
(*   src/main.py          IslamicTelegramBot, main   (the Supervisor)      *)
(*                                                                         *)
(* Time is counted in seconds since 00:00 of day 0.  A text is a sequence  *)
(* of characters.  A time string "HH:MM" or "HH:MM:SS" is the sequence of  *)
(* its numeric fields (<<6, 0>> is "06:00"); a string that is no time at   *)
(* all is a sequence of another length.                                    *)
(*                                                                         *)
(* ContentScheduler keeps its jobs in the job list of the `schedule`       *)
(* package.  The calls it makes (clear, every().day.at(t).do(f),           *)
(* run_pending, jobs, next_run) are modelled by what that package does:    *)
(* a job runs when now >= next_run, and after it ran its next_run is the   *)
(* earliest occurrence of its time of day after the moment it finished.    *)
(***************************************************************************)
EXTENDS Integers, Sequences, FiniteSets, TLC

VARIABLES
    now,             \* the wall clock, datetime.now()
    jobs,            \* schedule.jobs: the job list, in registration order
    scheduled_jobs,  \* ContentScheduler.scheduled_jobs
    next_job_id,     \* identity of the next Job object created
    setups,          \* number of setup_schedule calls made so far
    last_setup,      \* the last setup_schedule call: its argument and outcome
    sched_pc,        \* position of start_scheduler
    pending,         \* run_pending: runnable jobs not yet run in this tick
    poll_time,       \* the clock when run_pending chose the runnable jobs
    ticks,           \* number of ticks of the scheduler loop so far
    fired_at,        \* per content type, the next_run its last run was due at
    last_op,         \* the operation of the last step and what it did
    send_log,        \* the last direct send_message call: argument and events
    last_failed,     \* the last run of a job that posted nothing, until the
                     \* job runs again
    blocked,         \* seconds the loop slept in the callbacks of the last
                     \* tick and of this one, and the overrun of its last sleep
    sup_pc,          \* position of the main thread in main() and start()
    pause_secs,      \* the length of the time.sleep the main thread is in
    handlers,        \* signal.signal has installed _signal_handler
    validated,       \* the validations passed in this pass of start()
    faults,          \* exceptions that have left start_scheduler so far
    tick_result,     \* what the last run_pending_tasks call of the loop met
    threads          \* the bot_polling threads: position of each

vars == <<now, jobs, scheduled_jobs, next_job_id, setups, last_setup,
          sched_pc, pending, poll_time, ticks, fired_at, last_op, send_log,
          last_failed, blocked, sup_pc, pause_secs, handlers, validated, faults,
          tick_result, threads>>

\* The state of the registry, the clock and the sends; the state of the
\* supervisor and of the two loops' threads.
corevars == <<now, jobs, scheduled_jobs, next_job_id, setups, last_setup,
              sched_pc, pending, poll_time, ticks, fired_at, send_log,
              last_failed, blocked>>

supvars == <<sup_pc, pause_secs, handlers, validated, faults, tick_result,
             threads>>

-----------------------------------------------------------------------------
(* Bounds of the model *)

MaxDays == 2          \* the clock stops at the end of day MaxDays - 1
MaxLagDays == 1       \* a sleep of the loop may overrun by up to this many days
MaxSetups == 2        \* setup_schedule calls
MaxTicks == 3         \* ticks of the scheduler loop
MaxScriptLen == 2     \* length of a transport script
MaxFaults == 2        \* exceptions that leave start_scheduler

(* Program constants *)

retry_attempts == 3
retry_delay == 60
wait_time == 60
MaxMessageLen == 4096
TruncateAt == 4090
TickInterval == 30
ErrorBackoff == 60
PollingPause == 30
ValidationBackoff == 30
StartErrorPause == 30
InterruptPause == 5
MainErrorPause == 30
Minute == 60
Hour == 60 * Minute
Day == 24 * Hour
ShownRuns == 3

NoTime == 0 - 1

-----------------------------------------------------------------------------
(* Texts *)

Alphabet == <<"a", "b", "c", "d", "e", "f", "g">>

\* A text of n characters whose neighbours differ.
Text(n) == [i \in 1..n |-> Alphabet[(i % 7) + 1]]

Ellipsis == <<".", ".", ".">>

-----------------------------------------------------------------------------
(* The transport: bot.send_message of telebot.  One outcome per call.  An  *)
(* ApiTelegramException is the set of the phrases its text contains among  *)
(* those send_message looks for.  A script is the sequence of outcomes of  *)
(* successive calls; its last outcome repeats for ever.                    *)

Phrases == {"too many requests", "timeout", "chat not found", "bot was blocked"}

Ok == [kind |-> "ok", phrases |-> {}]
ApiError(ps) == [kind |-> "api_error", phrases |-> ps]
OtherException == [kind |-> "exception", phrases |-> {}]

Outcome(script, n) == script[IF n <= Len(script) THEN n ELSE Len(script)]

Sum(s) == LET F[i \in 0..Len(s)] == IF i = 0 THEN 0 ELSE F[i - 1] + s[i]
          IN F[Len(s)]

-----------------------------------------------------------------------------
(* TelegramBot.send_message *)

\* Lines 58-59: the size guard.  (Truncated_keepAll: cut at the limit less
\* the dots, not at 4090.)
Truncated_keepAll(message) ==
    IF Len(message) > MaxMessageLen
    THEN SubSeq(message, 1, TruncateAt + 3) \o Ellipsis
    ELSE message

\* (Truncated_always: the dots are added to every message.)
Truncated_always(message) ==
    SubSeq(message, 1, IF Len(message) > TruncateAt THEN TruncateAt
                       ELSE Len(message)) \o Ellipsis

Truncated(message) ==
    IF Len(message) > MaxMessageLen
    THEN SubSeq(message, 1, TruncateAt) \o Ellipsis
    ELSE message

\* Line 81, 91, 108: may this failure be retried?  (MayRetry_le: <= for <.)
MayRetry_le(retry_count) == retry_count <= retry_attempts

MayRetry(retry_count) == retry_count < retry_attempts

\* Lines 72-118: what the except clauses do with a failed attempt.
\*   "cooldown_retry": sleep wait_time, then retry if attempts are left
\*   "delay_retry":    if attempts are left, sleep retry_delay and retry
\*   "fail":           return False at once
\* (Reaction_noCritical: without the branch of lines 100-102.)
Reaction_noCritical(outcome) ==
    IF outcome.kind = "exception" THEN "fail"
    ELSE IF "too many requests" \in outcome.phrases THEN "cooldown_retry"
    ELSE "delay_retry"

Reaction(outcome) ==
    IF outcome.kind = "exception" THEN "fail"
    ELSE IF "too many requests" \in outcome.phrases THEN "cooldown_retry"
    ELSE IF "timeout" \in outcome.phrases THEN "delay_retry"
    ELSE IF "chat not found" \in outcome.phrases
            \/ "bot was blocked" \in outcome.phrases THEN "fail"
    ELSE "delay_retry"

AttemptEvent(text, outcome) ==
    [kind |-> "attempt", text |-> text, outcome |-> outcome, secs |-> 0]
SleepEvent(secs) ==
    [kind |-> "sleep", text |-> <<>>, outcome |-> Ok, secs |-> secs]

\* send_message(message, retry_count) against a transport that has been
\* called n times: the result and the events (attempts and sleeps) in order.
RECURSIVE send_message(_, _, _, _)
send_message(message, retry_count, script, n) ==
    LET text == Truncated(message)
        outcome == Outcome(script, n + 1)
        attempt == AttemptEvent(text, outcome)
        again == send_message(text, retry_count + 1, script, n + 1)
    IN  IF outcome.kind = "ok"
        THEN [result |-> TRUE, events |-> <<attempt>>]
        ELSE CASE Reaction(outcome) = "cooldown_retry" ->
                    IF MayRetry(retry_count)
                    THEN [result |-> again.result,
                          events |-> <<attempt, SleepEvent(wait_time)>> \o again.events]
                    ELSE [result |-> FALSE,
                          events |-> <<attempt, SleepEvent(wait_time)>>]
               [] Reaction(outcome) = "delay_retry" ->
                    IF MayRetry(retry_count)
                    THEN [result |-> again.result,
                          events |-> <<attempt, SleepEvent(retry_delay)>> \o again.events]
                    ELSE [result |-> FALSE, events |-> <<attempt>>]
               [] OTHER -> [result |-> FALSE, events |-> <<attempt>>]

\* The number of calls of the transport.
Attempts(events) ==
    Cardinality({i \in 1..Len(events) : events[i].kind = "attempt"})

\* The seconds a call spent in time.sleep.
Slept(events) == Sum([i \in 1..Len(events) |-> events[i].secs])

NoSend == [called |-> FALSE, message |-> <<>>, script |-> <<>>,
           result |-> FALSE, events |-> <<>>]

SendLog(message, script) ==
    LET r == send_message(message, 0, script, 0)
    IN  [called |-> TRUE, message |-> message, script |-> script,
         result |-> r.result, events |-> r.events]

-----------------------------------------------------------------------------
(* Time strings and the daily recurrence: every().day.at(time_str) *)

\* at() accepts HH:MM and HH:MM:SS with the fields in range and raises
\* for any other string.
ValidTime(time_str) ==
    /\ Len(time_str) \in {2, 3}
    /\ time_str[1] \in 0..23
    /\ time_str[2] \in 0..59
    /\ Len(time_str) = 3 => time_str[3] \in 0..59

\* The time of day, in seconds after midnight.
AtTime(time_str) ==
    time_str[1] * Hour + time_str[2] * Minute
        + (IF Len(time_str) = 3 THEN time_str[3] ELSE 0)

\* The next run of a daily job at time of day `at`, scheduled at clock t:
\* today when the time of day is still ahead, tomorrow otherwise.
\* (NextRun_sameDay: always today.)
NextRun_sameDay(t, at) == (t \div Day) * Day + at

NextRun(t, at) ==
    LET today == (t \div Day) * Day + at
    IN  IF at > t % Day THEN today ELSE today + Day

\* Job.should_run  (should_run_strict: > for >=.)
should_run_strict(job, t) == t > job.next_run

should_run(job, t) == t >= job.next_run

-----------------------------------------------------------------------------
(* ContentScheduler *)

Entry(ct, time_str) == [content_type |-> ct, time_str |-> time_str]

default_schedule ==
    << Entry("morning_azkar", <<6, 0>>),
       Entry("quran_verse", <<8, 0>>),
       Entry("daily_hadith", <<12, 0>>),
       Entry("religious_post", <<14, 0>>),
       Entry("daily_reminder", <<17, 0>>),
       Entry("companion_story", <<19, 0>>),
       Entry("daily_dua", <<20, 0>>),
       Entry("evening_azkar", <<21, 0>>) >>

\* The custom_times argument: None, or a mapping (its entries in order).
None == [given |-> FALSE, entries |-> <<>>]
Mapping(entries) == [given |-> TRUE, entries |-> entries]

Keys(mapping) == {mapping[i].content_type : i \in 1..Len(mapping)}

\* Line 34: custom_times or self.default_schedule.  None and the empty
\* mapping are both false.
schedule_times(custom_times) ==
    IF ~custom_times.given \/ custom_times.entries = <<>>
    THEN default_schedule
    ELSE custom_times.entries

Registry(js, sj, id, raised) ==
    [jobs |-> js, scheduled_jobs |-> sj, next_job_id |-> id, raised |-> raised]

\* Lines 43-50: one entry of the mapping.  at() raises for a malformed time
\* before do() adds the job; the except clause logs it and goes on.
\* (ScheduleEntry_uncaught: without the try, the exception escapes.)
ScheduleEntry_uncaught(reg, entry, t) ==
    IF ValidTime(entry.time_str)
    THEN Registry(
            Append(reg.jobs,
                   [id |-> reg.next_job_id,
                    content_type |-> entry.content_type,
                    at_time |-> AtTime(entry.time_str),
                    next_run |-> NextRun(t, AtTime(entry.time_str))]),
            Append(reg.scheduled_jobs,
                   [content_type |-> entry.content_type,
                    time_str |-> entry.time_str,
                    job |-> reg.next_job_id]),
            reg.next_job_id + 1,
            FALSE)
    ELSE Registry(reg.jobs, reg.scheduled_jobs, reg.next_job_id, TRUE)

ScheduleEntry(reg, entry, t) ==
    IF ValidTime(entry.time_str)
    THEN Registry(
            Append(reg.jobs,
                   [id |-> reg.next_job_id,
                    content_type |-> entry.content_type,
                    at_time |-> AtTime(entry.time_str),
                    next_run |-> NextRun(t, AtTime(entry.time_str))]),
            Append(reg.scheduled_jobs,
                   [content_type |-> entry.content_type,
                    time_str |-> entry.time_str,
                    job |-> reg.next_job_id]),
            reg.next_job_id + 1,
            FALSE)
    ELSE reg

\* Lines 42-50: the loop over the mapping; an exception that escapes an
\* entry ends it.
RECURSIVE ScheduleAll(_, _, _)
ScheduleAll(reg, entries, t) ==
    IF entries = <<>> \/ reg.raised
    THEN reg
    ELSE ScheduleAll(ScheduleEntry(reg, Head(entries), t), Tail(entries), t)

\* setup_schedule(custom_times) at clock t, with scheduled_jobs = sj.
\* Line 39: schedule.clear() empties the job list; scheduled_jobs is kept.
setup_schedule(custom_times, sj, id, t) ==
    ScheduleAll(Registry(<<>>, sj, id, FALSE), schedule_times(custom_times), t)

\* sorted(..., key=next_run): a stable sort.
RECURSIVE Insert(_, _)
Insert(s, x) ==
    IF s = <<>> THEN <<x>>
    ELSE IF x.next_run < Head(s).next_run THEN <<x>> \o s
    ELSE <<Head(s)>> \o Insert(Tail(s), x)

SortedByNextRun(s) ==
    LET F[i \in 0..Len(s)] == IF i = 0 THEN <<>> ELSE Insert(F[i - 1], s[i])
    IN  F[Len(s)]

\* Lines 95-99: the content type scheduled_jobs records for a job.
ContentTypeOf(job, sj) ==
    LET hits == {i \in 1..Len(sj) : sj[i].job = job.id}
    IN  IF hits = {} THEN "unknown"
        ELSE sj[CHOOSE i \in hits : \A k \in hits : i <= k].content_type

\* _log_next_runs: the runs it lists.
log_next_runs(js, sj) ==
    LET jobs_info == [i \in 1..Len(js) |->
                        [next_run |-> js[i].next_run,
                         content_type |-> ContentTypeOf(js[i], sj)]]
        sorted == SortedByNextRun(jobs_info)
    IN  SubSeq(sorted, 1, IF Len(sorted) < ShownRuns THEN Len(sorted) ELSE ShownRuns)

Min(S) == CHOOSE x \in S : \A y \in S : x <= y

\* get_schedule_status
get_schedule_status(js, sj) ==
    [total_jobs |-> Len(js),
     scheduled_content_types |-> Len(sj),
     next_run |-> IF js = <<>> THEN NoTime
                  ELSE Min({js[i].next_run : i \in 1..Len(js)})]

-----------------------------------------------------------------------------
(* TelegramBot.send_formatted_content and the generate-and-send callback *)

emoji_map(ct) ==
    CASE ct = "morning_azkar" -> "sunrise"
      [] ct = "evening_azkar" -> "moon"
      [] ct = "quran_verse" -> "book"
      [] ct = "daily_hadith" -> "books"
      [] ct = "daily_dua" -> "palms"
      [] ct = "daily_reminder" -> "thought"
      [] OTHER -> "mosque"

\* _get_content_title: the Arabic title, named here by its meaning.
content_title(ct) ==
    CASE ct = "morning_azkar" -> "Morning azkar"
      [] ct = "evening_azkar" -> "Evening azkar"
      [] ct = "quran_verse" -> "A verse of the Quran"
      [] ct = "daily_hadith" -> "A noble hadith"
      [] ct = "daily_dua" -> "An answered dua"
      [] ct = "daily_reminder" -> "A reminder of faith"
      [] OTHER -> "Islamic content"

\* Line 139: the emoji, the title in bold, a blank line, the content.  The
\* emoji and the title each stand as one element of the text.
formatted_message(ct, content) ==
    <<emoji_map(ct), " ", "<b>", content_title(ct), "</b>", "\n", "\n">> \o content

\* send_formatted_content(content_type, content) against a transport script.
send_formatted_content(ct, content, script) ==
    IF content = <<>>
    THEN [result |-> FALSE, log |-> NoSend]
    ELSE LET log == SendLog(formatted_message(ct, content), script)
         IN  [result |-> log.result, log |-> log]

\* What generate_content does in one call: it returns a text, returns
\* nothing, or raises.
GenOutcomes == {"text", "none", "raise"}

\* The content of a call: a short text, or one that makes the formatted
\* message longer than the transport allows.
Generated(gen) ==
    CASE gen = "text" -> Text(2)
      [] gen = "long" -> Text(MaxMessageLen + 1)
      [] OTHER -> <<>>

\* Line 71: `if content:`.  (HasContent_always: the test left out.)
HasContent_always(content) == TRUE

HasContent(content) == content # <<>>

\* Lines 82-83: `except Exception` around the whole callback.
\* (CallbackCatches_never: without it.)
CallbackCatches_never(exc) == FALSE

CallbackCatches(exc) == exc = "Exception"

\* _generate_and_send_content(content_type): whether generation and delivery
\* were called, the calls of generate_content (line 69), how the run ended,
\* the send, and the seconds spent sleeping in it.  An exception of
\* generate_content is caught at lines 82-83; one that is not would leave
\* the callback ("escaped").
generate_and_send_content(ct, gen, script) ==
    IF gen = "raise"
    THEN [generated |-> TRUE, generations |-> 1,
          delivery |-> FALSE, posted |-> FALSE,
          outcome |-> IF CallbackCatches("Exception") THEN "raised"
                      ELSE "escaped",
          attempts |-> 0, secs |-> 0, log |-> NoSend]
    ELSE IF ~HasContent(Generated(gen))
    THEN [generated |-> TRUE, generations |-> 1,
          delivery |-> FALSE, posted |-> FALSE,
          outcome |-> "no_content", attempts |-> 0, secs |-> 0, log |-> NoSend]
    ELSE LET r == send_formatted_content(ct, Generated(gen), script)
         IN  [generated |-> TRUE, generations |-> 1,
              delivery |-> TRUE, posted |-> r.result,
              outcome |-> IF r.result THEN "posted" ELSE "failed",
              attempts |-> Attempts(r.log.events),
              secs |-> Slept(r.log.events), log |-> r.log]

\* Line 125: the content types run_content_now accepts.
KnownContentType(ct, js) == ct \in Keys(default_schedule)

\* run_content_now(content_type)
run_content_now(ct, js, gen, script) ==
    IF ~KnownContentType(ct, js)
    THEN [content_type |-> ct, result |-> FALSE, generated |-> FALSE,
          delivery |-> FALSE, secs |-> 0]
    ELSE LET r == generate_and_send_content(ct, gen, script)
         IN  [content_type |-> ct, result |-> TRUE, generated |-> r.generated,
              delivery |-> r.delivery, secs |-> r.secs]

-----------------------------------------------------------------------------
(* The inputs of the model *)

MaxNow == MaxDays * Day - 1

\* The moment the process is started at: shortly before 06:00.
StartTimes == {6 * Hour - Minute}

\* By how much a sleep of the loop may overrun: not at all, or by whole days.
Lags == {k * Day : k \in 0..MaxLagDays}

ContentTypes == Keys(default_schedule) \cup {"friday_reminder"}

\* The custom_times a caller may pass to setup_schedule.
CustomTimes ==
    { None,
      Mapping(<<>>),
      Mapping(<< Entry("quran_verse", <<6, 0>>),
                 Entry("morning_azkar", <<6, 0>>) >>),
      Mapping(<< Entry("morning_azkar", <<25, 0>>),
                 Entry("friday_reminder", <<6, 0, 30>>),
                 Entry("quran_verse", <<99>>) >>) }

\* The content types a caller may pass to run_content_now.
RunNowTypes == {"morning_azkar", "friday_reminder", "weekly_quiz"}

\* The transports of the scheduler's sends: one that delivers, one that is
\* always rate limited, one whose destination is not found, one whose call
\* raises an error that is no API error.
LoopScripts ==
    { <<Ok>>, <<ApiError({"too many requests"})>>, <<ApiError({"chat not found"})>>,
      <<OtherException>> }

\* The transports of a manual trigger.
RunNowScripts == { <<Ok>>, <<ApiError({"chat not found"})>> }

\* The outcomes of one call of the transport.
PhraseSets ==
    { {}, {"too many requests"}, {"timeout"}, {"chat not found"},
      {"bot was blocked"}, {"timeout", "chat not found"},
      {"too many requests", "bot was blocked"} }

Outcomes == {Ok, OtherException} \cup {ApiError(ps) : ps \in PhraseSets}

Scripts ==
    UNION { [1..k -> Outcomes] : k \in 1..MaxScriptLen }

\* The texts passed to send_message: short, at the limit, over the limit.
Messages ==
    { Text(n) : n \in {1, MaxMessageLen - 6, MaxMessageLen,
                       MaxMessageLen + 1, MaxMessageLen + 4} }

-----------------------------------------------------------------------------
(* The state machine *)

NoSetup == [called |-> FALSE, custom_times |-> None, raised |-> FALSE,
            shown |-> <<>>]

NoOp == [op |-> "none"]

NoFailure == [job |-> 0, kind |-> "none", done |-> 0, at_time |-> 0]

\* Each pass of start() that reaches line 83 starts a thread.
MaxThreads == MaxFaults + 1

Init ==
    /\ now \in StartTimes
    /\ jobs = <<>>
    /\ scheduled_jobs = <<>>
    /\ next_job_id = 1
    /\ setups = 0
    /\ last_setup = NoSetup
    /\ sched_pc = "stopped"
    /\ pending = <<>>
    /\ poll_time = 0
    /\ ticks = 0
    /\ fired_at = [ct \in ContentTypes |-> NoTime]
    /\ last_op = NoOp
    /\ send_log = NoSend
    /\ last_failed = NoFailure
    /\ blocked = [prev |-> 0, cur |-> 0, lag |-> 0]
    /\ sup_pc = "main"
    /\ pause_secs = 0
    /\ handlers = FALSE
    /\ validated = {}
    /\ faults = 0
    /\ tick_result = "none"
    /\ threads = [t \in 1..MaxThreads |-> "none"]

\* The effect of a setup_schedule(custom_times) call on the registry.  The
\* jobs of before are gone, and with them the record of a failed run.
DoSetup(custom_times) ==
    LET reg == setup_schedule(custom_times, scheduled_jobs, next_job_id, now)
    IN  /\ jobs' = reg.jobs
        /\ scheduled_jobs' = reg.scheduled_jobs
        /\ next_job_id' = reg.next_job_id
        /\ setups' = setups + 1
        /\ last_setup' = [called |-> TRUE, custom_times |-> custom_times,
                          raised |-> reg.raised,
                          shown |-> log_next_runs(reg.jobs, reg.scheduled_jobs)]
        /\ last_op' = [op |-> "setup_schedule"]
        /\ last_failed' = NoFailure

\* ContentScheduler.setup_schedule(custom_times), called between two ticks.
SetupSchedule ==
    /\ setups < MaxSetups
    /\ sched_pc # "run"
    /\ \E custom_times \in CustomTimes : DoSetup(custom_times)
    /\ UNCHANGED <<now, sched_pc, pending, poll_time, ticks, fired_at,
                   send_log, blocked>>
    /\ UNCHANGED supvars

\* start_scheduler, lines 160-161: set up the default schedule, enter the loop.
StartScheduler ==
    /\ sched_pc = "stopped"
    /\ setups < MaxSetups
    /\ DoSetup(None)
    /\ sched_pc' = "poll"
    /\ UNCHANGED <<now, pending, poll_time, ticks, fired_at, send_log,
                   blocked>>
    /\ UNCHANGED supvars

\* run_pending_tasks, line 58: run_pending picks the jobs that should run,
\* sorted by next_run.
RunPending ==
    /\ sched_pc = "poll"
    /\ pending' = SortedByNextRun(SelectSeq(jobs, LAMBDA j : should_run(j, now)))
    /\ poll_time' = now
    /\ sched_pc' = "run"
    /\ last_op' = [op |-> "run_pending"]
    /\ blocked' = [blocked EXCEPT !.prev = blocked.cur, !.cur = 0]
    /\ UNCHANGED <<now, jobs, scheduled_jobs, next_job_id, setups, last_setup,
                   ticks, fired_at, send_log, last_failed>>
    /\ UNCHANGED supvars

\* run_pending runs the next runnable job: the callback generates and sends
\* (sleeping between the attempts), then the job is scheduled again.  At
\* most one send of a tick meets a transport that makes it sleep.  An
\* exception that left the callback would leave run_pending as well, before
\* the job is scheduled again and before the other runnable jobs run, and
\* be caught at lines 59-60.
RunJob ==
    /\ sched_pc = "run"
    /\ pending # <<>>
    /\ \E gen \in GenOutcomes, script \in LoopScripts :
          LET job == Head(pending)
              r == generate_and_send_content(job.content_type, gen, script)
              done == now + r.secs
              escaped == r.outcome = "escaped"
              next == IF escaped THEN job.next_run
                      ELSE NextRun(done, job.at_time)
          IN  /\ r.secs > 0 => now = poll_time
              /\ done <= MaxNow
              /\ now' = done
              /\ jobs' = [i \in 1..Len(jobs) |->
                            IF jobs[i].id = job.id
                            THEN [jobs[i] EXCEPT !.next_run = next]
                            ELSE jobs[i]]
              /\ last_op' = [op |-> "run_job",
                             content_type |-> job.content_type,
                             poll |-> poll_time, due |-> job.next_run,
                             next_run |-> next, done |-> done,
                             before |-> fired_at[job.content_type],
                             generated |-> r.generated,
                             delivery |-> r.delivery, posted |-> r.posted,
                             attempts |-> r.attempts, outcome |-> r.outcome,
                             gen |-> gen, start |-> now,
                             transport |-> Outcome(script, 1).kind,
                             blocked |-> blocked.prev + blocked.cur,
                             lag |-> blocked.lag,
                             failed_before |-> IF last_failed.job = job.id
                                               THEN last_failed ELSE NoFailure]
              /\ fired_at' = [fired_at EXCEPT ![job.content_type] = job.next_run]
              /\ last_failed' =
                    IF r.outcome \in {"no_content", "failed"}
                    THEN [job |-> job.id, kind |-> r.outcome, done |-> done,
                          at_time |-> job.at_time]
                    ELSE IF last_failed.job = job.id THEN NoFailure
                    ELSE last_failed
              /\ blocked' = [blocked EXCEPT !.cur = blocked.cur + r.secs]
              /\ pending' = IF escaped THEN <<>> ELSE Tail(pending)
    /\ UNCHANGED <<scheduled_jobs, next_job_id, setups, last_setup, sched_pc,
                   poll_time, ticks, send_log>>
    /\ UNCHANGED supvars

\* Line 167: all runnable jobs have run; sleep until the next tick.
TickSleep ==
    /\ sched_pc = "run"
    /\ pending = <<>>
    /\ ticks < MaxTicks
    /\ \E lag \in Lags :
          /\ now + TickInterval + lag <= MaxNow
          /\ now' = now + TickInterval + lag
          /\ last_op' = [op |-> "sleep", secs |-> TickInterval + lag]
          /\ blocked' = [blocked EXCEPT !.lag = lag]
    /\ ticks' = ticks + 1
    /\ sched_pc' = "poll"
    /\ UNCHANGED <<jobs, scheduled_jobs, next_job_id, setups, last_setup,
                   pending, poll_time, fired_at, send_log, last_failed>>
    /\ UNCHANGED supvars

RegisteredTypes(js) == {js[i].content_type : i \in 1..Len(js)}

\* ContentScheduler.run_content_now(content_type), called between two ticks.
RunContentNow ==
    /\ sched_pc # "run"
    /\ \E ct \in RunNowTypes, gen \in GenOutcomes, script \in RunNowScripts :
          LET r == run_content_now(ct, jobs, gen, script)
          IN  /\ now + r.secs <= MaxNow
              /\ now' = now + r.secs
              /\ last_op' = [op |-> "run_content_now", content_type |-> ct,
                             result |-> r.result,
                             generated |-> r.generated,
                             delivery |-> r.delivery,
                             registered |-> RegisteredTypes(jobs)]
    /\ UNCHANGED <<jobs, scheduled_jobs, next_job_id, setups, last_setup,
                   sched_pc, pending, poll_time, ticks, fired_at, send_log,
                   last_failed, blocked>>
    /\ UNCHANGED supvars

Next ==
    \/ SetupSchedule
    \/ StartScheduler
    \/ RunPending
    \/ RunJob
    \/ TickSleep
    \/ RunContentNow

Spec == Init /\ [][Next]_vars

-----------------------------------------------------------------------------
(* The Delivery Client alone: one send_message call, with each text and    *)
(* against each transport script.                                          *)

SendMessage ==
    /\ ~send_log.called
    /\ \E message \in Messages, script \in Scripts :
          send_log' = SendLog(message, script)
    /\ last_op' = [op |-> "send_message"]
    /\ UNCHANGED <<now, jobs, scheduled_jobs, next_job_id, setups, last_setup,
                   sched_pc, pending, poll_time, ticks, fired_at, last_failed,
                   blocked>>
    /\ UNCHANGED supvars

\* What generate_content does in a run of the callback.
SendGenOutcomes == GenOutcomes \cup {"long"}

SendContentTypes == {"morning_azkar", "friday_reminder"}

\* One run of _generate_and_send_content, against each transport script.
GenerateAndSend ==
    /\ last_op = NoOp
    /\ \E ct \in SendContentTypes, gen \in SendGenOutcomes, script \in Scripts :
          LET r == generate_and_send_content(ct, gen, script)
          IN  /\ send_log' = r.log
              /\ last_op' = [op |-> "generate_and_send", content_type |-> ct,
                             gen |-> gen, generations |-> r.generations,
                             outcome |-> r.outcome]
    /\ UNCHANGED <<now, jobs, scheduled_jobs, next_job_id, setups, last_setup,
                   sched_pc, pending, poll_time, ticks, fired_at, last_failed,
                   blocked>>
    /\ UNCHANGED supvars

NextSend ==
    \/ SendMessage
    \/ GenerateAndSend

SpecSend == Init /\ [][NextSend]_vars

-----------------------------------------------------------------------------
(* The Supervisor and the two loops: main() and IslamicTelegramBot.start   *)
(* of src/main.py, start_scheduler and the bot_polling thread of           *)
(* src/bot_handler.py.  Here a tick of the scheduler loop is one step,     *)
(* taken with what run_pending_tasks met in it; Spec above details it.     *)

Signals == {"SIGINT", "SIGTERM"}

\* `except Exception` catches an Exception, not a KeyboardInterrupt.
\* (IsException_never: the clause catches nothing.)
IsException_never(exc) == FALSE

IsException(exc) == exc = "Exception"

\* The try statements around the main thread, from the inside out: the one
\* of the scheduler loop (bot_handler.py 165-171), the one of start()
\* (main.py 45-95), the one of main() (main.py 109-120).
TryLevels == <<"loop", "start", "main", "top">>

Within(level, outer) ==
    \E i, k \in 1..Len(TryLevels) :
        TryLevels[i] = level /\ TryLevels[k] = outer /\ i <= k

\* Where the main thread is with respect to them.  The sleeps of the except
\* clauses (bot_handler.py 170, main.py 94, 115, 119) are outside their try.
Level(pc) ==
    CASE pc = "tick" -> "loop"
      [] pc = "tick_wait" -> IF pause_secs = ErrorBackoff THEN "start" ELSE "loop"
      [] pc = "main" -> "main"
      [] pc \in {"main_pause", "exited"} -> "top"
      [] OTHER -> "start"

Goto(pc, secs) == [pc |-> pc, secs |-> secs]

\* Where an exception raised at `level` lands: the except clause that
\* catches it and the sleep of that clause; uncaught, it ends the process.
Landing(level, exc) ==
    IF Within(level, "loop") /\ IsException(exc)
    THEN Goto("tick_wait", ErrorBackoff)
    ELSE IF Within(level, "start") /\ IsException(exc)
    THEN Goto("start_pause", StartErrorPause)
    ELSE IF Within(level, "main") /\ exc = "KeyboardInterrupt"
    THEN Goto("main_pause", InterruptPause)
    ELSE IF Within(level, "main") /\ IsException(exc)
    THEN Goto("main_pause", MainErrorPause)
    ELSE Goto("exited", 0)

\* A daemon thread ends with the process.
ThreadsAfter(pc) ==
    IF pc = "exited" THEN [t \in 1..MaxThreads |-> "none"] ELSE threads

\* The main thread goes to sleep or to the next statement.
Move(to) ==
    /\ sup_pc' = to.pc
    /\ pause_secs' = to.secs
    /\ threads' = ThreadsAfter(to.pc)

\* main.py 111: IslamicTelegramBot(); it may raise.
ConstructOutcomes == {"ok", "raise"}

Construct ==
    /\ sup_pc = "main"
    /\ \E outcome \in ConstructOutcomes :
          /\ Move(IF outcome = "ok" THEN Goto("validate_config", 0)
                  ELSE Landing(Level(sup_pc), "Exception"))
          /\ last_op' = [op |-> "construct", outcome |-> outcome]
    /\ validated' = {}
    /\ UNCHANGED <<handlers, faults, tick_result>>
    /\ UNCHANGED corevars

\* What a validation does: it returns True, returns False, or raises.
ValidationOutcomes == {"ok", "fail", "raise"}

\* The validations of a pass, in order (main.py 49, 55, 61).
Validations == <<"validate_config", "test_telegram", "test_generator">>

AfterValidation(pc) ==
    CASE pc = "validate_config" -> "test_telegram"
      [] pc = "test_telegram" -> "test_generator"
      [] OTHER -> "install_handlers"

\* main.py 49-64: a validation that fails is followed by the backoff and
\* `continue`.  (OnValidation_ignore: the result is not looked at.)
OnValidation_ignore(pc, outcome) == Goto(AfterValidation(pc), 0)

OnValidation(pc, outcome) ==
    CASE outcome = "ok" -> Goto(AfterValidation(pc), 0)
      [] outcome = "fail" -> Goto("start_pause", ValidationBackoff)
      [] OTHER -> Landing(Level(pc), "Exception")

Validate ==
    /\ \E i \in 1..Len(Validations) : sup_pc = Validations[i]
    /\ \E outcome \in ValidationOutcomes :
          /\ Move(OnValidation(sup_pc, outcome))
          /\ validated' = IF outcome = "ok" THEN validated \cup {sup_pc}
                          ELSE validated
          /\ last_op' = [op |-> "validate", step |-> sup_pc, outcome |-> outcome]
    /\ UNCHANGED <<handlers, faults, tick_result>>
    /\ UNCHANGED corevars

\* main.py 67-68
InstallHandlers ==
    /\ sup_pc = "install_handlers"
    /\ handlers' = TRUE
    /\ Move(Goto("startup_send", 0))
    /\ last_op' = [op |-> "install_handlers"]
    /\ UNCHANGED <<validated, faults, tick_result>>
    /\ UNCHANGED corevars

\* main.py 76-80: the startup notification; its failure is only logged.
StartupSend ==
    /\ sup_pc = "startup_send"
    /\ Move(Goto("start_polling", 0))
    /\ last_op' = [op |-> "startup_send"]
    /\ UNCHANGED <<handlers, validated, faults, tick_result>>
    /\ UNCHANGED corevars

PollingThreads == {t \in 1..MaxThreads : threads[t] # "none"}

\* main.py 83, bot_handler.py 141-156: a new daemon thread runs bot_polling.
StartBotPolling ==
    /\ sup_pc = "start_polling"
    /\ \E t \in 1..MaxThreads :
          /\ threads[t] = "none"
          /\ \A u \in 1..(t - 1) : threads[u] # "none"
          /\ threads' = [threads EXCEPT ![t] = "polling"]
          /\ last_op' = [op |-> "start_bot_polling", thread |-> t,
                         validated |-> validated]
    /\ sup_pc' = "setup"
    /\ UNCHANGED <<pause_secs, handlers, validated, faults, tick_result>>
    /\ UNCHANGED corevars

\* What lines 160-161 of start_scheduler do: they complete, or an exception
\* leaves start_scheduler.
SetupOutcomes == {"ok", "raise"}

\* main.py 86, bot_handler.py 160-161: start_scheduler up to its loop.
SchedulerSetup ==
    /\ sup_pc = "setup"
    /\ \E outcome \in SetupOutcomes :
          /\ outcome = "raise" => faults < MaxFaults
          /\ Move(IF outcome = "ok" THEN Goto("tick", 0)
                  ELSE Landing(Level(sup_pc), "Exception"))
          /\ faults' = IF outcome = "ok" THEN faults ELSE faults + 1
          /\ last_op' = [op |-> "start_scheduler", outcome |-> outcome,
                         validated |-> validated]
    /\ UNCHANGED <<handlers, validated, tick_result>>
    /\ UNCHANGED corevars

\* What run_pending_tasks meets in a tick: jobs that post, a job without
\* content, a delivery that fails, an exception that is caught inside
\* (scheduler.py 59, 82), an exception that leaves run_pending_tasks (one
\* raised while the clause of scheduler.py 59-60 runs).
TickOutcomes == {"ok", "no_content", "failed", "raised", "escaped"}

\* bot_handler.py 165-171: the wait that follows a tick.  (TickWait_flat:
\* the same wait after every tick.)
TickWait_flat(outcome) == Goto("tick_wait", TickInterval)

TickWait(outcome) ==
    IF outcome = "escaped"
    THEN Landing("loop", "Exception")
    ELSE Goto("tick_wait", TickInterval)

\* bot_handler.py 166: one run_pending_tasks call of the loop.
Tick ==
    /\ sup_pc = "tick"
    /\ \E outcome \in TickOutcomes :
          /\ tick_result' = outcome
          /\ Move(TickWait(outcome))
          /\ last_op' = [op |-> "tick", outcome |-> outcome]
    /\ UNCHANGED <<handlers, validated, faults>>
    /\ UNCHANGED corevars

\* bot_handler.py 167, 170-171: the sleep ends, the loop goes round.
TickWaitDone ==
    /\ sup_pc = "tick_wait"
    /\ Move(Goto("tick", 0))
    /\ last_op' = [op |-> "tick_wait_done", secs |-> pause_secs,
                   after |-> tick_result]
    /\ UNCHANGED <<handlers, validated, faults, tick_result>>
    /\ UNCHANGED corevars

\* Where a sleep of start() (main.py 51, 57, 63, 94: `continue`) and one of
\* main() (main.py 115, 119: `continue`) lead.  (AfterPause_exit: the
\* function returns instead.)
AfterPause_exit(pc) == "exited"

AfterPause(pc) == IF pc = "start_pause" THEN "validate_config" ELSE "main"

PauseDone ==
    /\ sup_pc \in {"start_pause", "main_pause"}
    /\ Move(Goto(AfterPause(sup_pc), 0))
    /\ validated' = {}
    /\ last_op' = [op |-> "pause_done", from |-> sup_pc, secs |-> pause_secs]
    /\ UNCHANGED <<handlers, faults, tick_result>>
    /\ UNCHANGED corevars

\* A SIGINT or SIGTERM arrives.  With _signal_handler installed it is only
\* logged.  Without it SIGTERM ends the process and SIGINT raises
\* KeyboardInterrupt in the main thread.
Signal ==
    /\ sup_pc # "exited"
    /\ \E sig \in Signals :
          /\ IF handlers
             THEN UNCHANGED <<sup_pc, pause_secs, threads>>
             ELSE IF sig = "SIGTERM"
             THEN Move(Goto("exited", 0))
             ELSE Move(Landing(Level(sup_pc), "KeyboardInterrupt"))
          /\ last_op' = [op |-> "signal", sig |-> sig, at |-> sup_pc,
                         handled |-> handlers]
    /\ UNCHANGED <<handlers, validated, faults, tick_result>>
    /\ UNCHANGED corevars

\* What bot.polling does in the thread: it handles an event and goes on, or
\* it raises, because the receive call failed or because a handler raised.
PollingOutcomes == {"event_handled", "receive_error", "handler_error"}

\* bot_handler.py 145-151: an exception of polling is followed by the pause
\* and `continue`.  (OnPolling_dies: the exception ends the thread.)
OnPolling_dies(outcome) ==
    IF outcome = "event_handled" THEN "polling" ELSE "none"

OnPolling(outcome) ==
    IF outcome = "event_handled" THEN "polling" ELSE "pause"

Polling(t) ==
    /\ threads[t] = "polling"
    /\ \E outcome \in PollingOutcomes :
          /\ threads' = [threads EXCEPT ![t] = OnPolling(outcome)]
          /\ last_op' = [op |-> "polling", thread |-> t, outcome |-> outcome]
    /\ UNCHANGED <<sup_pc, pause_secs, handlers, validated, faults, tick_result>>
    /\ UNCHANGED corevars

\* bot_handler.py 150-151: the pause ends, polling is called again.
PollingPauseDone(t) ==
    /\ threads[t] = "pause"
    /\ threads' = [threads EXCEPT ![t] = "polling"]
    /\ last_op' = [op |-> "polling_resumed", thread |-> t, secs |-> PollingPause]
    /\ UNCHANGED <<sup_pc, pause_secs, handlers, validated, faults, tick_result>>
    /\ UNCHANGED corevars

MainThread ==
    \/ Construct
    \/ Validate
    \/ InstallHandlers
    \/ StartupSend
    \/ StartBotPolling
    \/ SchedulerSetup
    \/ Tick
    \/ TickWaitDone
    \/ PauseDone

PollingThread(t) == Polling(t) \/ PollingPauseDone(t)

NextSup ==
    \/ MainThread
    \/ \E t \in 1..MaxThreads : PollingThread(t)
    \/ Signal

\* Every thread of the process keeps running.
SpecSup ==
    /\ Init
    /\ [][NextSup]_vars
    /\ WF_vars(MainThread)
    /\ \A t \in 1..MaxThreads : WF_vars(PollingThread(t))

-----------------------------------------------------------------------------
(* Properties of the Delivery Client, checked under SpecSend *)

RateLimited(o) == o.kind = "api_error" /\ "too many requests" \in o.phrases

\* A permanent failure: the destination is not found or the bot is blocked,
\* and the error is neither a rate limit nor a timeout, which rank first.
Permanent(o) ==
    /\ o.kind = "api_error"
    /\ "chat not found" \in o.phrases \/ "bot was blocked" \in o.phrases
    /\ "too many requests" \notin o.phrases
    /\ "timeout" \notin o.phrases

\* A timeout, or a failure of no class: an API error that is neither rate
\* limited nor permanent, or an error that is no API error at all.
TimeoutOrOther(o) ==
    \/ o.kind = "exception"
    \/ o.kind = "api_error" /\ ~RateLimited(o) /\ ~Permanent(o)

Always(script, P(_)) == \A i \in 1..Len(script) : P(script[i])

\* Every attempt after the first comes right after a sleep of `secs`.
RetriesFollow(events, secs) ==
    \A i \in 2..Len(events) :
        events[i].kind = "attempt" => events[i - 1] = SleepEvent(secs)

\* C1: against a transport that is rate limited on every attempt, a send
\* makes exactly 1 + retry_attempts attempts, reports failure, and sleeps
\* the cooldown before each retry.
C1_RateLimitedAttempts ==
    (send_log.called /\ Always(send_log.script, RateLimited)) =>
        /\ Attempts(send_log.events) = 1 + retry_attempts
        /\ Attempts(send_log.events) = 4
        /\ ~send_log.result
        /\ RetriesFollow(send_log.events, 60)

C1_Witness ==
    /\ send_log.called
    /\ Always(send_log.script, RateLimited)
    /\ Attempts(send_log.events) > 1

\* C2: an attempt that meets a permanent failure is the last event of the
\* send, which reports failure: no sleep and no attempt follows it; when it
\* is the first attempt the send makes exactly one attempt.
C2_PermanentEndsSend ==
    send_log.called =>
        \A i \in 1..Len(send_log.events) :
            (send_log.events[i].kind = "attempt"
                /\ Permanent(send_log.events[i].outcome)) =>
                    /\ i = Len(send_log.events)
                    /\ ~send_log.result
                    /\ Permanent(send_log.script[1]) =>
                            Attempts(send_log.events) = 1

C2_Witness ==
    /\ send_log.called
    /\ Len(send_log.events) > 1
    /\ Permanent(send_log.events[Len(send_log.events)].outcome)
    /\ send_log.events[Len(send_log.events)].kind = "attempt"

\* C3: against a transport that always fails with a timeout or with a
\* failure of no class (an API error of no class or an error that is no API
\* error), a send makes 1 + retry_attempts attempts, sleeping the retry
\* delay before each retry, and reports failure.
C3_TimeoutOrOtherRetried ==
    (send_log.called /\ Always(send_log.script, TimeoutOrOther)) =>
        /\ Attempts(send_log.events) = 1 + retry_attempts
        /\ ~send_log.result
        /\ RetriesFollow(send_log.events, 60)

\* C4: the text handed to the transport is the message itself when it is
\* at most 4096 characters long; otherwise it is the first 4096 - 6
\* characters of the message followed by three dots, 4096 - 3 characters.
C4_SizeGuard ==
    send_log.called =>
        \A i \in 1..Len(send_log.events) :
            send_log.events[i].kind = "attempt" =>
                LET m == send_log.message
                    t == send_log.events[i].text
                IN  IF Len(m) <= 4096
                    THEN t = m
                    ELSE /\ Len(t) = 4096 - 3
                         /\ \A k \in 1..(4096 - 6) : t[k] = m[k]
                         /\ \A k \in (4096 - 5)..(4096 - 3) : t[k] = "."

C4_Witness ==
    /\ send_log.called
    /\ Len(send_log.message) > 4096
    /\ Attempts(send_log.events) > 1

\* C12: a run of the generate-and-send callback calls generation once; the
\* message sent is the one formatted from that content, and all attempts of
\* its send, the first and every retry, carry the same text: the message,
\* or its cut form when it is over the limit.
C12_SamePayload ==
    last_op.op = "generate_and_send" =>
        /\ last_op.generations = 1
        /\ send_log.called =>
              /\ send_log.message
                    = formatted_message(last_op.content_type, Generated(last_op.gen))
              /\ \A i \in 1..Len(send_log.events) :
                    send_log.events[i].kind = "attempt" =>
                        /\ send_log.events[i].text = send_log.events[1].text
                        /\ Len(send_log.message) <= 4096 =>
                                send_log.events[i].text = send_log.message
                        /\ Len(send_log.message) > 4096 =>
                                Len(send_log.events[i].text) = 4093

C12_Witness ==
    /\ last_op.op = "generate_and_send"
    /\ send_log.called
    /\ Len(send_log.message) > 4096
    /\ Attempts(send_log.events) = 1 + retry_attempts

-----------------------------------------------------------------------------
(* Properties of the Job Registry and the Scheduler Loop, checked under Spec *)

JobIds(js) == {js[i].id : i \in 1..Len(js)}

\* The entries of a mapping whose time of day parses.
ValidEntries(entries) == SelectSeq(entries, LAMBDA e : ValidTime(e.time_str))

\* C5 as stated: after a tick at time now has run a job, the job's next_run
\* is greater than now and exactly 24 hours after its previous next_run.
C5_Plus24h ==
    last_op.op = "run_job" =>
        /\ last_op.next_run > last_op.poll
        /\ last_op.next_run = last_op.due + 24 * 3600

\* C5, amended: after a tick at time now has run a job, the job's next_run
\* is greater than now, falls on the job's time of day and is the earliest
\* such time after the job finished; it is exactly 24 hours after the
\* previous next_run when the job finished less than 24 hours after it.
C5_NextOccurrence ==
    last_op.op = "run_job" =>
        /\ last_op.next_run > last_op.poll
        /\ last_op.next_run > last_op.done
        /\ last_op.next_run - 24 * 3600 <= last_op.done
        /\ last_op.next_run % (24 * 3600) = last_op.due % (24 * 3600)
        /\ last_op.done < last_op.due + 24 * 3600 =>
                last_op.next_run = last_op.due + 24 * 3600
        /\ \E i \in 1..Len(jobs) :
                /\ jobs[i].content_type = last_op.content_type
                /\ jobs[i].next_run = last_op.next_run

C5_Witness ==
    /\ last_op.op = "run_job"
    /\ last_op.done > last_op.poll
    /\ last_op.next_run = last_op.due + 24 * 3600

\* C6: a tick fires exactly the registered jobs whose next_run is at or
\* before the time of the poll: a job is not run before its time, every job
\* due at the poll is run in that tick, after the tick no job is due at the
\* time of the poll, and a job is not run twice for one occurrence.
C6_FiresWhenDue ==
    /\ last_op.op = "run_job" =>
            /\ last_op.due <= last_op.poll
            /\ last_op.due > last_op.before
    /\ sched_pc = "run" =>
            {jobs[i].id : i \in {k \in 1..Len(jobs) : jobs[k].next_run <= poll_time}}
                = JobIds(pending)

C6_Witness ==
    /\ last_op.op = "run_job"
    /\ last_op.due = last_op.poll
    /\ pending = <<>>

\* C7: after setup_schedule is called with an empty mapping the registry
\* holds no job: total_jobs is 0, next_run is absent and the listing of the
\* upcoming runs is empty.
C7_EmptyMapping ==
    (last_op.op = "setup_schedule" /\ last_setup.custom_times = Mapping(<<>>)) =>
        /\ get_schedule_status(jobs, scheduled_jobs).total_jobs = 0
        /\ get_schedule_status(jobs, scheduled_jobs).next_run = NoTime
        /\ log_next_runs(jobs, scheduled_jobs) = <<>>

\* C8: after any setup_schedule calls and ticks, the registry holds exactly
\* one job per content type of the last mapping (the default one when none
\* was given; entries whose time does not parse aside) and no entry of an
\* earlier setup_schedule call.
C8_OneJobPerType ==
    (last_setup.called /\ last_setup.custom_times # Mapping(<<>>)) =>
        LET given == IF last_setup.custom_times.given
                     THEN last_setup.custom_times.entries
                     ELSE default_schedule
        IN  /\ RegisteredTypes(jobs) = Keys(ValidEntries(given))
            /\ Len(jobs) = Cardinality(Keys(ValidEntries(given)))
            /\ Len(scheduled_jobs) = Len(jobs)
            /\ \A i \in 1..Len(scheduled_jobs) :
                    scheduled_jobs[i].job \in JobIds(jobs)
            /\ get_schedule_status(jobs, scheduled_jobs).scheduled_content_types
                    = get_schedule_status(jobs, scheduled_jobs).total_jobs

\* C9: run_content_now fails, without generating or delivering, exactly
\* when the content type is not one registered by the last setup_schedule;
\* for a registered content type it generates and delivers.
C9_RunNowRegistered ==
    (last_op.op = "run_content_now" /\ last_setup.called) =>
        /\ last_op.result = (last_op.content_type \in last_op.registered)
        /\ ~last_op.result => ~last_op.generated /\ ~last_op.delivery
        /\ last_op.content_type \in last_op.registered => last_op.generated

\* C10: when some times of the mapping given to setup_schedule do not
\* parse, the jobs registered are exactly the entries whose time parses, in
\* the order of the mapping, and the call does not raise.
C10_MalformedSkipped ==
    (/\ last_op.op = "setup_schedule"
     /\ last_setup.custom_times.given
     /\ ValidEntries(last_setup.custom_times.entries)
            # last_setup.custom_times.entries) =>
        LET valid == ValidEntries(last_setup.custom_times.entries)
        IN  /\ ~last_setup.raised
            /\ Len(jobs) = Len(valid)
            /\ \A i \in 1..Len(valid) :
                    /\ jobs[i].content_type = valid[i].content_type
                    /\ jobs[i].at_time = AtTime(valid[i].time_str)

C10_Witness ==
    /\ last_op.op = "setup_schedule"
    /\ last_setup.custom_times.given
    /\ Len(jobs) = 1
    /\ Len(last_setup.custom_times.entries) = 3
    /\ ~last_setup.raised

\* C11: a run of a job whose generation returns no content makes no delivery
\* attempt; after a run that posted nothing (no content, or a delivery that
\* failed after its retries) the job is due again only at the next
\* occurrence of its time of day after the run ended, and it runs again, and
\* with it a new send starts, only in a tick at or after that occurrence.
C11_NoRetryBeforeNextOccurrence ==
    /\ (last_op.op = "run_job" /\ last_op.gen = "none") =>
            /\ ~last_op.delivery /\ last_op.attempts = 0
            /\ last_op.outcome = "no_content"
    /\ (last_op.op = "run_job" /\ last_op.outcome \in {"no_content", "failed"}) =>
            /\ last_op.next_run > last_op.done
            /\ last_op.next_run - 24 * 3600 <= last_op.done
            /\ last_op.next_run % (24 * 3600) = last_op.due % (24 * 3600)
    /\ last_failed.kind # "none" =>
            \A i \in 1..Len(jobs) :
                jobs[i].id = last_failed.job =>
                    /\ jobs[i].next_run > last_failed.done
                    /\ jobs[i].next_run > now \/ sched_pc = "poll"
                            \/ jobs[i].id \in JobIds(pending)
    /\ (last_op.op = "run_job" /\ last_op.failed_before.kind # "none") =>
            /\ last_op.due > last_op.failed_before.done
            /\ last_op.due % (24 * 3600) = last_op.failed_before.at_time
            /\ last_op.poll >= last_op.due

\* C20 as stated: a job is run no later than 30 s after its next_run,
\* whatever else ran in the tick or before it (the sleep of the loop
\* returning on time).
C20_WithinTickInterval ==
    (last_op.op = "run_job" /\ last_op.lag = 0) =>
        last_op.start - last_op.due <= 30

\* C20, amended: when the sleep of the loop returns on time, a job is run
\* at or after its next_run and less than 30 s, plus the seconds the loop
\* slept in the callbacks of the jobs run before it since the previous poll
\* (the retry cooldowns of their deliveries), after it; less than 30 s
\* after it when there were none.
C20_WithinTickAndBlocking ==
    (last_op.op = "run_job" /\ last_op.lag = 0) =>
        /\ last_op.start - last_op.due < 30 + last_op.blocked
        /\ last_op.blocked = 0 => last_op.start - last_op.due < 30
        /\ last_op.start >= last_op.due

C20_Witness ==
    /\ last_op.op = "run_job"
    /\ last_op.lag = 0
    /\ last_op.blocked > 0
    /\ last_op.start - last_op.due > 30

C11_Witness ==
    /\ last_op.op = "run_job"
    /\ last_op.failed_before.kind = "failed"
    /\ last_op.outcome = "no_content"

-----------------------------------------------------------------------------
(* Properties of the Supervisor and the loops, checked under SpecSup *)

\* C13: whatever a tick of the scheduler loop met (jobs posted, no content,
\* a delivery failed, an exception caught inside, an exception that left
\* run_pending_tasks), the step of the tick leaves the main thread in the
\* loop, in its wait, and the wait is followed by another poll.
C13_LoopPollsAgain ==
    /\ [][sup_pc = "tick" => sup_pc' \in {"tick", "tick_wait"}]_vars
    /\ [][sup_pc = "tick_wait" => sup_pc' \in {"tick", "tick_wait"}]_vars
    /\ \A o \in TickOutcomes :
            (sup_pc = "tick_wait" /\ tick_result = o) ~> (sup_pc = "tick")

C13_Witness ==
    /\ sup_pc = "tick"
    /\ tick_result = "escaped"
    /\ last_op.op = "tick_wait_done"

\* C14: when an exception leaves start_scheduler, the supervisor does not
\* exit: it sleeps, and after the sleep it begins a new pass at the first
\* validation with no validation passed yet; so after the first such fault
\* and after every later one.
C14_RestartAfterFault ==
    /\ [](faults > 0 => sup_pc # "exited")
    /\ []((last_op.op = "start_scheduler" /\ last_op.outcome = "raise") =>
            (sup_pc = "start_pause" /\ pause_secs > 0))
    /\ \A n \in 1..MaxFaults :
            (faults = n /\ sup_pc = "start_pause")
                ~> (faults = n /\ sup_pc = "validate_config" /\ validated = {})

C14_Witness ==
    /\ faults = MaxFaults
    /\ faults > 1
    /\ sup_pc = "validate_config"
    /\ last_op.op = "pause_done"

\* C15: wherever the main thread is (in a validation, in a backoff, in the
\* loop, in a pause), a SIGINT or SIGTERM that arrives is intercepted and
\* changes nothing: the process goes on, the main thread stays where it
\* was, and no loop stops.
C15_SignalsIgnored ==
    last_op.op = "signal" =>
        /\ last_op.handled
        /\ sup_pc # "exited"
        /\ sup_pc = last_op.at

\* C16: at most one bot_polling thread runs at any time, and exactly one
\* while the scheduler loop runs, whatever passes of start() came before.
C16_OneOfEachLoop ==
    /\ Cardinality(PollingThreads) <= 1
    /\ sup_pc \in {"tick", "tick_wait"} => Cardinality(PollingThreads) = 1

AllValidations == {Validations[i] : i \in 1..Len(Validations)}

\* C17: in each pass of start(), the polling thread and the scheduler are
\* started only when the configuration, the transport and the generator
\* validations have all succeeded in that pass; a validation that fails or
\* raises leaves the process running in the 30 s backoff, and the backoff
\* is followed by a new pass at the first validation, none passed yet.
C17_ValidatedBeforeLoops ==
    /\ sup_pc \in {"install_handlers", "startup_send", "start_polling",
                    "setup", "tick", "tick_wait"} => validated = AllValidations
    /\ last_op.op \in {"start_bot_polling", "start_scheduler"} =>
            last_op.validated = AllValidations
    /\ (last_op.op = "validate" /\ last_op.outcome # "ok") =>
            /\ sup_pc = "start_pause"
            /\ pause_secs = 30
            /\ last_op.step \notin validated
    /\ (last_op.op = "pause_done" /\ last_op.from = "start_pause") =>
            /\ sup_pc = "validate_config"
            /\ validated = {}

C17_Witness ==
    /\ last_op.op = "start_bot_polling"
    /\ last_op.validated = AllValidations
    /\ faults = 1

\* C18: a bot_polling thread, once started, never ends; when its polling
\* call raises, because the receive call failed or because the handling of
\* an event raised, the thread pauses 30 s and then calls polling again,
\* wherever the main thread is at that time.
C18_PollingRestarts ==
    /\ [][\A t \in 1..MaxThreads :
            threads[t] # "none" => threads'[t] # "none"]_vars
    /\ []((last_op.op = "polling" /\ last_op.outcome # "event_handled") =>
            threads[last_op.thread] = "pause")
    /\ \A t \in 1..MaxThreads :
            (threads[t] = "pause") ~> (threads[t] = "polling")

C18_Witness ==
    /\ last_op.op = "polling_resumed"
    /\ last_op.secs = 30
    /\ sup_pc = "start_pause"

\* C19 as stated: the wait after a tick is the 60 s backoff when an exception
\* was raised in the processing of the tick, and the 30 s interval only
\* when none was.
C19_BackoffAfterException ==
    last_op.op = "tick" =>
        /\ sup_pc = "tick_wait"
        /\ last_op.outcome \in {"raised", "escaped"} => pause_secs = 60
        /\ pause_secs = 30 => last_op.outcome \notin {"raised", "escaped"}

\* C19, amended: the wait after a tick is the 60 s backoff, longer than the
\* 30 s interval, when an exception left run_pending_tasks and reached the
\* loop; it is the 30 s interval after every tick whose run_pending_tasks
\* call returned, also when an exception of the poll, of generation or of
\* delivery was raised and caught inside it.
C19_BackoffAfterEscape ==
    /\ last_op.op = "tick" =>
            /\ sup_pc = "tick_wait"
            /\ last_op.outcome = "escaped" => pause_secs = 60
            /\ last_op.outcome # "escaped" => pause_secs = 30
    /\ last_op.op = "tick_wait_done" =>
            /\ sup_pc = "tick"
            /\ last_op.secs = IF last_op.after = "escaped" THEN 60 ELSE 30

C19_Witness ==
    /\ last_op.op = "tick_wait_done"
    /\ last_op.after = "escaped"
    /\ last_op.secs > TickInterval

-----------------------------------------------------------------------------
(* Further properties of the registry, the send and the tick *)

\* The content types in lexical order.
LexOrder ==
    << "companion_story", "daily_dua", "daily_hadith", "daily_reminder",
       "evening_azkar", "friday_reminder", "morning_azkar", "quran_verse",
       "religious_post", "unknown" >>

LexRank(ct) == CHOOSE i \in 1..Len(LexOrder) : LexOrder[i] = ct

\* C21: the listing of the upcoming runs holds the 3 jobs with the smallest
\* next_run (all jobs when there are fewer), in ascending order of next_run,
\* and jobs with the same next_run in lexical order of their content type,
\* in whatever order the mapping registered them.
C21_UpcomingLexicalTies ==
    LET shown == log_next_runs(jobs, scheduled_jobs)
    IN  /\ Len(shown) = IF Len(jobs) < 3 THEN Len(jobs) ELSE 3
        /\ \A i \in 1..Len(shown) : \A k \in (i + 1)..Len(shown) :
                \/ shown[i].next_run < shown[k].next_run
                \/ /\ shown[i].next_run = shown[k].next_run
                   /\ LexRank(shown[i].content_type)
                        <= LexRank(shown[k].content_type)
        /\ Len(shown) > 0 =>
                Cardinality({k \in 1..Len(jobs) :
                                jobs[k].next_run < shown[Len(shown)].next_run})
                    < Len(shown)

\* C22: against every sequence of transport outcomes, also one in which a
\* rate limit, a timeout and other errors follow each other, a send ends
\* after at most 1 + retry_attempts attempts: the attempts are counted
\* together, whatever the class of each failure.  The n-th attempt meets
\* the n-th outcome, a sleep stands only between two attempts or after the
\* last one, and the send succeeds exactly when its last attempt does.
C22_SharedRetryBudget ==
    send_log.called =>
        LET events == send_log.events
            tried == SelectSeq(events, LAMBDA e : e.kind = "attempt")
        IN  /\ Len(tried) >= 1
            /\ Len(tried) <= 1 + retry_attempts
            /\ Len(tried) <= 4
            /\ \A n \in 1..Len(tried) :
                    tried[n].outcome = Outcome(send_log.script, n)
            /\ \A i \in 1..Len(events) :
                    events[i].kind = "sleep" =>
                        /\ i > 1
                        /\ events[i - 1].kind = "attempt"
                        /\ events[i].secs = 60
            /\ send_log.result = (tried[Len(tried)].outcome.kind = "ok")

C22_Witness ==
    /\ send_log.called
    /\ Len(send_log.script) = 2
    /\ RateLimited(send_log.script[1])
    /\ send_log.script[2] = ApiError({"timeout"})
    /\ Attempts(send_log.events) = 1 + retry_attempts

\* The jobs due at the time of the poll of this tick.
DueAtPoll == {jobs[i].id : i \in {k \in 1..Len(jobs) : jobs[k].next_run <= poll_time}}

\* C23: when a run of a job in a tick fails (generation returns nothing or
\* raises, the delivery fails, or the call of the transport raises), the
\* job has its next_run moved past the end of the run, the other jobs due
\* in the tick are all still to be run in it, and the loop goes to sleep
\* only when every job that was due has been run.
C23_FailureDoesNotStopTick ==
    /\ (/\ last_op.op = "run_job"
        /\ \/ last_op.gen \in {"none", "raise"}
           \/ ~last_op.posted) =>
            /\ last_op.next_run > last_op.done
            /\ last_op.next_run > last_op.due
            /\ \A i \in 1..Len(jobs) :
                    jobs[i].content_type = last_op.content_type =>
                        jobs[i].next_run = last_op.next_run
            /\ sched_pc = "run"
            /\ JobIds(pending) = DueAtPoll
    /\ last_op.op = "sleep" => DueAtPoll = {}

C23_Witness ==
    /\ last_op.op = "run_job"
    /\ last_op.poll = poll_time
    /\ last_op.gen = "raise"
    /\ last_failed.kind = "failed"
    /\ last_failed.done >= poll_time
    /\ pending # <<>>

=============================================================================
